---- MODULE Spec2Model ----
(***************************************************************************)
(* Post lifecycle of the marketing back office: the handlers createPost,   *)
(* updatePost, deletePost, submitForApproval, approvePost and publishPost  *)
(* of server/src/controllers/messageController.ts over the Post collection *)
(* of server/src/models/Post.ts.  Each handler runs atomically: one        *)
(* request is one step.                                                    *)
(*                                                                         *)
(* A post is modelled by its title (standing for the content fields title, *)
(* content, platform, mediaUrls, hashtags, mentions and campaign, which    *)
(* the handlers all treat alike), status, scheduledAt, publishedAt,        *)
(* createdBy and approvedBy.  Dates are instants 1, 2, ... of a clock; the *)
(* store's bookkeeping stamps createdAt / updatedAt are not modelled.      *)
(* Request bodies carry valid values only, so the schema validators never  *)
(* reject a write.                                                         *)
(***************************************************************************)
EXTENDS Integers, FiniteSets, Sequences, TLC

\* ---------------------------------------------------------------- bounds
MaxTime == 2       \* instants of the clock
MaxSched == 1      \* scheduling timestamps a request may carry: 1..MaxSched

\* ------------------------------------------------------------ principals
Users == {"ann", "mia", "sam"}

Role(u) ==
  CASE u = "ann" -> "DM_EXECUTIVE"
    [] u = "mia" -> "MARKETING_HEAD"
    [] u = "sam" -> "SUPER_ADMIN"

ElevatedRoles == {"SUPER_ADMIN", "MARKETING_HEAD"}

\* ---------------------------------------------------------------- values
NullDate == 0          \* a Date path holding null
NullUser == "null"     \* an ObjectId path holding null
Titles == {"Launch", "Teaser"}
PostIds == {1}          \* ObjectIds; an id is never given to a second post
Times == 1..MaxTime
SchedTimes == 1..MaxSched

PostStatus ==
  {"DRAFT", "SCHEDULED", "PENDING_APPROVAL", "PUBLISHED", "FAILED", "ARCHIVED"}

VARIABLES
  posts,        \* the Post collection: id -> document, for the stored ids
  nextId,       \* the next fresh id
  now,          \* the clock: the instant of the latest request
  response,     \* the last request and the answer it got
  everPending,  \* history: ids whose status has been PENDING_APPROVAL
  leads,        \* the Lead collection: id -> document, for the stored ids
  nextLead,     \* the next fresh lead id
  campaigns,    \* the Campaign collection: id -> document
  records,      \* the Analytics collection: a sequence of event records
  calls,        \* the requests in flight, where handlers are taken await by await
  events        \* the post notifications emitted so far, in order

vars == <<posts, nextId, now, response, everPending,
          leads, nextLead, campaigns, records, calls, events>>

postVars == <<posts, nextId, everPending>>
leadVars == <<leads, nextLead>>
raceVars == <<calls, events>>

\* -------------------------------------------------------------- requests
\* JavaScript truthiness of a request's scheduledAt (absent keys are handled
\* by the callers; null is falsy, a timestamp is truthy).
Truthy(d) == d # NullDate

\* Bodies of POST /posts: title and an optional scheduledAt.
CreateBodies == [title : Titles, scheduledAt : {NullDate} \cup SchedTimes]

\* Bodies of PUT /posts/:id: either any subset of the keys title and
\* scheduledAt (scheduledAt possibly null), or one key the handler does not
\* list, "status", "publishedAt" or "approvedBy", which a client may send
\* anyway.
ListedPatches ==
  LET T == Titles \cup {"absent"}
      S == {NullDate, -1} \cup SchedTimes       \* -1: key absent
  IN  { [k \in {x \in {"title"} : t # "absent"} \cup
               {x \in {"scheduledAt"} : s # -1} |->
           IF k = "title" THEN t ELSE s] : t \in T, s \in S }

UnlistedPatches ==
  { [k \in {"status"} |-> v] : v \in {"PUBLISHED", "ARCHIVED", "FAILED"} }
    \cup { [k \in {"publishedAt"} |-> t] : t \in SchedTimes }
    \cup { [k \in {"approvedBy"} |-> u] : u \in {"mia"} }

Patches == ListedPatches \cup UnlistedPatches

\* ------------------------------------------------------------- responses
Answer(code, message, post) == [code |-> code, message |-> message, post |-> post]

\* ------------------------------------------------------------- createPost
\* Mutant: the initial status ignores scheduledAt.
NewPostAlwaysDraft(user, body) ==
  [ title       |-> body.title,
    scheduledAt |-> IF Truthy(body.scheduledAt) THEN body.scheduledAt ELSE NullDate,
    createdBy   |-> user,
    status      |-> "DRAFT",
    publishedAt |-> NullDate,
    approvedBy  |-> NullUser ]

NewPost(user, body) ==
  [ title       |-> body.title,
    scheduledAt |-> IF Truthy(body.scheduledAt) THEN body.scheduledAt ELSE NullDate,
    createdBy   |-> user,
    status      |-> IF Truthy(body.scheduledAt) THEN "SCHEDULED" ELSE "DRAFT",
    publishedAt |-> NullDate,
    approvedBy  |-> NullUser ]

\* ------------------------------------------------------------- updatePost
CanModify(post, user) ==
  post.createdBy = user \/ Role(user) \in ElevatedRoles

\* Mutants: the allow-list also names status, or approvedBy.
AllowedUpdatesWithStatus == {"title", "scheduledAt", "status"}

AllowedUpdatesWithApprover == {"title", "scheduledAt", "approvedBy"}

AllowedUpdates == {"title", "scheduledAt"}

\* Mutant: a scheduling timestamp is stored without forcing the status.
UpdatesNoReschedule(patch) ==
  [f \in DOMAIN patch \cap AllowedUpdates |-> patch[f]]

Updates(patch) ==
  LET picked == [f \in DOMAIN patch \cap AllowedUpdates |-> patch[f]]
  IN  IF "scheduledAt" \in DOMAIN patch /\ Truthy(patch["scheduledAt"])
      THEN [f \in DOMAIN picked \cup {"scheduledAt", "status"} |->
              CASE f = "scheduledAt" -> patch["scheduledAt"]
                [] f = "status" -> "SCHEDULED"
                [] OTHER -> picked[f]]
      ELSE picked

\* findByIdAndUpdate(id, updates): $set of the given paths.
FindByIdAndUpdate(post, updates) ==
  [f \in DOMAIN post |-> IF f \in DOMAIN updates THEN updates[f] ELSE post[f]]

\* Mutant: the PUBLISHED guard runs before the ownership check.
UpdatePostStatusFirst(post, user, patch) ==
  IF post.status = "PUBLISHED"
  THEN Answer(400, "Cannot update published posts", post)
  ELSE IF ~CanModify(post, user)
  THEN Answer(403, "Not authorized to update this post", post)
  ELSE Answer(200, "Post updated successfully",
              FindByIdAndUpdate(post, Updates(patch)))

\* Mutant: the PUBLISHED guard is missing.
UpdatePostNoPublishedGuard(post, user, patch) ==
  IF ~CanModify(post, user)
  THEN Answer(403, "Not authorized to update this post", post)
  ELSE Answer(200, "Post updated successfully",
              FindByIdAndUpdate(post, Updates(patch)))

UpdatePostHandler(post, user, patch) ==
  IF ~CanModify(post, user)
  THEN Answer(403, "Not authorized to update this post", post)
  ELSE IF post.status = "PUBLISHED"
  THEN Answer(400, "Cannot update published posts", post)
  ELSE Answer(200, "Post updated successfully",
              FindByIdAndUpdate(post, Updates(patch)))

\* ------------------------------------------------------------- deletePost
\* Mutant: the ownership check of deletePost is missing.
DeletePostAnyone(post, user) == TRUE

DeletePostAllowed(post, user) == CanModify(post, user)

\* ------------------------------------------------------ submitForApproval
\* Mutant: the status guard also lets SCHEDULED posts through.
SubmitForApprovalLoose(post, user) ==
  IF post.status \notin {"DRAFT", "SCHEDULED"}
  THEN Answer(400, "Only draft posts can be submitted for approval", post)
  ELSE Answer(200, "Post submitted for approval",
              [post EXCEPT !.status = "PENDING_APPROVAL"])

SubmitForApprovalHandler(post, user) ==
  IF post.status # "DRAFT"
  THEN Answer(400, "Only draft posts can be submitted for approval", post)
  ELSE Answer(200, "Post submitted for approval",
              [post EXCEPT !.status = "PENDING_APPROVAL"])

\* ------------------------------------------------------------ approvePost
\* Mutant: approval without the status guard.
ApprovePostUnguarded(post, user) ==
  IF post.status = "PUBLISHED"
  THEN Answer(400, "Post is not pending approval", post)
  ELSE Answer(200, "Post approved successfully",
              [post EXCEPT !.status = "SCHEDULED", !.approvedBy = user])

ApprovePostHandler(post, user) ==
  IF post.status # "PENDING_APPROVAL"
  THEN Answer(400, "Post is not pending approval", post)
  ELSE Answer(200, "Post approved successfully",
              [post EXCEPT !.status = "SCHEDULED", !.approvedBy = user])

\* ------------------------------------------------------------ publishPost
\* Mutant: the publish date is not written.
PublishPostNoDate(post, user, t) ==
  IF post.status # "SCHEDULED"
  THEN Answer(400, "Only scheduled posts can be published", post)
  ELSE Answer(200, "Post published", [post EXCEPT !.status = "PUBLISHED"])

\* Mutant: drafts may be published directly.
PublishPostFromDraft(post, user, t) ==
  IF post.status \notin {"SCHEDULED", "DRAFT"}
  THEN Answer(400, "Only scheduled posts can be published", post)
  ELSE Answer(200, "Post published",
              [post EXCEPT !.status = "PUBLISHED", !.publishedAt = t])

PublishPostHandler(post, user, t) ==
  IF post.status # "SCHEDULED"
  THEN Answer(400, "Only scheduled posts can be published", post)
  ELSE Answer(200, "Post published",
              [post EXCEPT !.status = "PUBLISHED", !.publishedAt = t])

\* ------------------------------------------------------------------ state
Request(op, user, id, body, ans) ==
  [op |-> op, user |-> user, id |-> id, body |-> body,
   code |-> ans.code, message |-> ans.message]

NotFound == Answer(404, "Post not found", <<>>)

Store(id, post) == [i \in DOMAIN posts \cup {id} |-> IF i = id THEN post ELSE posts[i]]

Remove(id) == [i \in DOMAIN posts \ {id} |-> posts[i]]

History(ps) ==
  everPending \cup {i \in DOMAIN ps : ps[i].status = "PENDING_APPROVAL"}

\* The instants at which the next request may be handled: time does not
\* run backwards between two requests.
Later == {t \in Times : now <= t /\ t <= now + 1}

\* The collections as a fresh database holds them.
NoPosts == posts = <<>> /\ nextId = 1 /\ everPending = {}
NoLeads == leads = <<>> /\ nextLead = 1
NoCampaigns == campaigns = <<>>
NoRecords == records = <<>>

\* Two connections, none with a request in flight, and nothing emitted.
Calls == {1, 2}
Idle == [pc |-> "idle"]
NoCalls == calls = [c \in Calls |-> Idle] /\ events = <<>>

NoRequest ==
  /\ now = 1
  /\ response = [op |-> "none", user |-> NullUser, id |-> 0, body |-> <<>>,
                 code |-> 0, message |-> ""]

Init == NoRequest /\ NoPosts /\ NoLeads /\ NoCampaigns /\ NoRecords /\ NoCalls

createPost ==
  \E user \in Users, body \in CreateBodies, t \in Later :
    /\ nextId \in PostIds
    /\ posts' = Store(nextId, NewPost(user, body))
    /\ nextId' = nextId + 1
    /\ response' = Request("createPost", user, nextId, body,
                           Answer(201, "Post created successfully", <<>>))
    /\ everPending' = History(posts')
    /\ now' = t
    /\ UNCHANGED <<leadVars, campaigns, records, raceVars>>

\* A handler that loads the post, answers 404 when it is missing, and
\* otherwise stores the document the handler's answer carries.
Handle(op, user, id, body, t, ans) ==
  /\ posts' = IF id \in DOMAIN posts THEN Store(id, ans.post) ELSE posts
  /\ response' = Request(op, user, id, body, ans)
  /\ everPending' = History(posts')
  /\ now' = t
  /\ UNCHANGED <<nextId, leadVars, campaigns, records, raceVars>>

updatePost ==
  \E user \in Users, id \in PostIds, patch \in Patches, t \in Later :
    Handle("updatePost", user, id, patch, t,
           IF id \in DOMAIN posts
           THEN UpdatePostHandler(posts[id], user, patch) ELSE NotFound)

deletePost ==
  \E user \in Users, id \in PostIds, t \in Later :
    /\ posts' = IF id \in DOMAIN posts /\ DeletePostAllowed(posts[id], user)
                THEN Remove(id) ELSE posts
    /\ response' =
         Request("deletePost", user, id, <<>>,
                 IF id \notin DOMAIN posts THEN NotFound
                 ELSE IF ~DeletePostAllowed(posts[id], user)
                 THEN Answer(403, "Not authorized to delete this post", <<>>)
                 ELSE Answer(200, "Post deleted successfully", <<>>))
    /\ everPending' = History(posts')
    /\ now' = t
    /\ UNCHANGED <<nextId, leadVars, campaigns, records, raceVars>>

submitForApproval ==
  \E user \in Users, id \in PostIds, t \in Later :
    Handle("submitForApproval", user, id, <<>>, t,
           IF id \in DOMAIN posts
           THEN SubmitForApprovalHandler(posts[id], user) ELSE NotFound)

approvePost ==
  \E user \in Users, id \in PostIds, t \in Later :
    Handle("approvePost", user, id, <<>>, t,
           IF id \in DOMAIN posts
           THEN ApprovePostHandler(posts[id], user) ELSE NotFound)

publishPost ==
  \E user \in Users, id \in PostIds, t \in Later :
    Handle("publishPost", user, id, <<>>, t,
           IF id \in DOMAIN posts
           THEN PublishPostHandler(posts[id], user, t) ELSE NotFound)

Next ==
  \/ createPost
  \/ updatePost
  \/ deletePost
  \/ submitForApproval
  \/ approvePost
  \/ publishPost

Spec == Init /\ [][Next]_vars

\* ------------------------------------------------------------ properties
\* The request of a step is the one recorded in response': every step of
\* Next is one request.  ReqPost is the document the handler loaded.
Req == response'
ReqOnStored(op) == Req.op = op /\ Req.id \in DOMAIN posts
ReqPost == posts[Req.id]
PostUnchanged == posts' = posts
PostBecomes(p) == posts' = [posts EXCEPT ![Req.id] = p]

\* C1: every stored post has publishedAt set if and only if its status is
\* PUBLISHED.
C1_PublishedAtIffPublished ==
  \A i \in DOMAIN posts :
    (posts[i].publishedAt # NullDate) <=> (posts[i].status = "PUBLISHED")

C1_Witness ==
  /\ response.op = "publishPost" /\ response.code = 200
  /\ response.id \in DOMAIN posts
  /\ posts[response.id].status = "PUBLISHED"
  /\ posts[response.id].publishedAt = now

\* C2: approvePost on a stored post succeeds exactly when the post is
\* PENDING_APPROVAL, then setting status SCHEDULED and approvedBy to the
\* caller and nothing else; in every other status it answers 400 "Post is
\* not pending approval" and the post is unchanged.
C2_ApproveIffPending ==
  [][ ReqOnStored("approvePost") =>
        IF ReqPost.status = "PENDING_APPROVAL"
        THEN /\ Req.code = 200
             /\ PostBecomes([ReqPost EXCEPT !.status = "SCHEDULED",
                                            !.approvedBy = Req.user])
        ELSE /\ Req.code = 400
             /\ Req.message = "Post is not pending approval"
             /\ PostUnchanged ]_vars

\* A second approval: approvePost answered 400 on a post that is SCHEDULED
\* and already carries an approver.
C2_Witness ==
  /\ response.op = "approvePost" /\ response.code = 400
  /\ response.id \in DOMAIN posts
  /\ posts[response.id].status = "SCHEDULED"
  /\ posts[response.id].approvedBy \notin {NullUser, response.user}

\* C3: submitForApproval on a stored post whose status is not DRAFT answers
\* 400 "Only draft posts can be submitted for approval" and leaves the post
\* unchanged; on a DRAFT post it succeeds and changes status to
\* PENDING_APPROVAL and no other field.
C3_SubmitIffDraft ==
  [][ ReqOnStored("submitForApproval") =>
        IF ReqPost.status = "DRAFT"
        THEN /\ Req.code = 200
             /\ PostBecomes([ReqPost EXCEPT !.status = "PENDING_APPROVAL"])
        ELSE /\ Req.code = 400
             /\ Req.message = "Only draft posts can be submitted for approval"
             /\ PostUnchanged ]_vars

C3_Witness ==
  /\ response.op = "submitForApproval" /\ response.code = 400
  /\ response.id \in DOMAIN posts
  /\ posts[response.id].status = "PENDING_APPROVAL"

\* C4: publishPost on a stored post succeeds exactly when the post is
\* SCHEDULED, then setting status PUBLISHED and publishedAt to the current
\* time; in every other status it answers 400 and status and publishedAt
\* are unchanged.
C4_PublishIffScheduled ==
  [][ ReqOnStored("publishPost") =>
        IF ReqPost.status = "SCHEDULED"
        THEN /\ Req.code = 200
             /\ posts'[Req.id].status = "PUBLISHED"
             /\ posts'[Req.id].publishedAt = now'
        ELSE /\ Req.code = 400
             /\ Req.message = "Only scheduled posts can be published"
             /\ posts'[Req.id].status = ReqPost.status
             /\ posts'[Req.id].publishedAt = ReqPost.publishedAt ]_vars

\* A post published at the second instant of the clock.
C4_Witness ==
  /\ response.op = "publishPost" /\ response.code = 200
  /\ response.id \in DOMAIN posts
  /\ posts[response.id].publishedAt = now /\ now > 1

\* C5 as stated: updatePost with a non-empty body on a PUBLISHED post always
\* answers 400 "Cannot update published posts" and leaves the post unchanged.
C5_AlwaysImmutable ==
  [][ (ReqOnStored("updatePost") /\ ReqPost.status = "PUBLISHED"
         /\ DOMAIN Req.body # {}) =>
        /\ Req.code = 400
        /\ Req.message = "Cannot update published posts"
        /\ PostUnchanged ]_vars

\* C5 amended: updatePost with a non-empty body on a PUBLISHED post never
\* changes the post; it answers 400 "Cannot update published posts" when the
\* caller is the creator or has an elevated role, and 403 otherwise.
C5_PublishedNeverUpdated ==
  [][ (ReqOnStored("updatePost") /\ ReqPost.status = "PUBLISHED"
         /\ DOMAIN Req.body # {}) =>
        /\ PostUnchanged
        /\ IF \/ ReqPost.createdBy = Req.user
              \/ Role(Req.user) \in {"SUPER_ADMIN", "MARKETING_HEAD"}
           THEN Req.code = 400 /\ Req.message = "Cannot update published posts"
           ELSE Req.code = 403 /\ Req.message = "Not authorized to update this post"
    ]_vars

C5_Witness ==
  /\ response.op = "updatePost" /\ response.code = 400
  /\ DOMAIN response.body # {}
  /\ response.id \in DOMAIN posts
  /\ posts[response.id].status = "PUBLISHED"

\* The documents one request of the post routes can turn document p into.
PostSteps(p) ==
  { UpdatePostHandler(p, u, b).post : u \in Users, b \in Patches }
    \cup { SubmitForApprovalHandler(p, u).post : u \in Users }
    \cup { ApprovePostHandler(p, u).post : u \in Users }
    \cup { PublishPostHandler(p, u, t).post : u \in Users, t \in Times }

\* The documents some sequence of requests can turn the documents of S into.
RECURSIVE ReachableFrom(_)
ReachableFrom(S) ==
  LET N == S \cup UNION { PostSteps(p) : p \in S }
  IN  IF N = S THEN S ELSE ReachableFrom(N)

\* C6 as stated: from every stored post that is not PUBLISHED some sequence
\* of operations leads to status FAILED and some sequence to ARCHIVED.
C6_TerminalStatesReachable ==
  \A i \in DOMAIN posts :
    posts[i].status # "PUBLISHED" =>
      {"FAILED", "ARCHIVED"} \subseteq
        { q.status : q \in ReachableFrom({posts[i]}) }

\* C6 amended: FAILED and ARCHIVED are values of the status enumeration that
\* no operation writes: every stored post has status DRAFT, SCHEDULED,
\* PENDING_APPROVAL or PUBLISHED, also after an updatePost whose body
\* carries a status.
C6_NeverFailedOrArchived ==
  \A i \in DOMAIN posts :
    posts[i].status \in {"DRAFT", "SCHEDULED", "PENDING_APPROVAL", "PUBLISHED"}

\* An accepted updatePost whose body asked for status ARCHIVED.
C6_Witness ==
  /\ response.op = "updatePost" /\ response.code = 200
  /\ response.body = [k \in {"status"} |-> "ARCHIVED"]
  /\ response.id \in DOMAIN posts
  /\ posts[response.id].status = "PENDING_APPROVAL"

\* C7: an accepted updatePost (the post is DRAFT, SCHEDULED or
\* PENDING_APPROVAL) whose body sets a scheduling timestamp forces status
\* SCHEDULED; one whose body sets none leaves status, approvedBy and
\* publishedAt unchanged.
C7_RescheduleForcesScheduled ==
  [][ (ReqOnStored("updatePost") /\ Req.code = 200) =>
        /\ ReqPost.status \in {"DRAFT", "SCHEDULED", "PENDING_APPROVAL"}
        /\ IF "scheduledAt" \in DOMAIN Req.body /\ Req.body["scheduledAt"] # NullDate
           THEN /\ posts'[Req.id].status = "SCHEDULED"
                /\ posts'[Req.id].scheduledAt = Req.body["scheduledAt"]
           ELSE /\ posts'[Req.id].status = ReqPost.status
                /\ posts'[Req.id].approvedBy = ReqPost.approvedBy
                /\ posts'[Req.id].publishedAt = ReqPost.publishedAt ]_vars

\* A post that was pending approval and that an update with a scheduling
\* timestamp moved to SCHEDULED.
C7_Witness ==
  /\ response.op = "updatePost" /\ response.code = 200
  /\ "scheduledAt" \in DOMAIN response.body
  /\ response.body["scheduledAt"] # NullDate
  /\ response.id \in everPending
  /\ response.id \in DOMAIN posts
  /\ posts[response.id].status = "SCHEDULED"
  /\ posts[response.id].approvedBy = NullUser

\* C8: createPost stores a post whose status is SCHEDULED when the body
\* carries a scheduling timestamp and DRAFT otherwise, with publishedAt and
\* approvedBy unset and createdBy the caller.
C8_CreateInitialStatus ==
  [][ Req.op = "createPost" =>
        /\ Req.code = 201
        /\ Req.id \notin DOMAIN posts
        /\ Req.id \in DOMAIN posts'
        /\ posts'[Req.id].status =
             (IF Req.body.scheduledAt # NullDate THEN "SCHEDULED" ELSE "DRAFT")
        /\ posts'[Req.id].scheduledAt = Req.body.scheduledAt
        /\ posts'[Req.id].publishedAt = NullDate
        /\ posts'[Req.id].approvedBy = NullUser
        /\ posts'[Req.id].createdBy = Req.user ]_vars

C8_Witness ==
  /\ response.op = "createPost"
  /\ response.body.scheduledAt # NullDate
  /\ response.id \in DOMAIN posts
  /\ posts[response.id].status = "SCHEDULED"

\* C9: a post has approvedBy set only if its status has been
\* PENDING_APPROVAL at some earlier point; approvedBy is changed by a
\* successful approvePost on that post only, and never cleared.
C9_ApprovedOnlyAfterPending ==
  [][ \A i \in DOMAIN posts' :
        /\ posts'[i].approvedBy # NullUser => i \in everPending
        /\ (i \in DOMAIN posts /\ posts'[i].approvedBy # posts[i].approvedBy) =>
             /\ Req.op = "approvePost" /\ Req.id = i /\ Req.code = 200
             /\ posts'[i].approvedBy = Req.user ]_vars

\* A published post that carries its approver and was pending approval.
C9_Witness ==
  \E i \in DOMAIN posts :
    /\ posts[i].approvedBy # NullUser
    /\ posts[i].status = "PUBLISHED"
    /\ i \in everPending

\* C10: updatePost and deletePost on a stored post take effect only when the
\* caller is the post's creator or has role SUPER_ADMIN or MARKETING_HEAD;
\* for every other caller they answer 403 and the post is neither modified
\* nor removed.
C10_OwnerOrElevatedOnly ==
  [][ (ReqOnStored("updatePost") \/ ReqOnStored("deletePost")) =>
        (~(\/ ReqPost.createdBy = Req.user
           \/ Role(Req.user) \in {"SUPER_ADMIN", "MARKETING_HEAD"})
           => Req.code = 403 /\ PostUnchanged) ]_vars

C10_Witness ==
  /\ response.op = "deletePost" /\ response.code = 403
  /\ response.id \in DOMAIN posts
  /\ posts[response.id].createdBy # response.user
  /\ posts[response.id].status = "DRAFT"

\* C11: the permission check of a post mutation runs before the lifecycle
\* check: when the caller of updatePost or deletePost (the post mutations
\* that carry a permission check) is neither the creator nor elevated, the
\* answer is 403 whatever the post's status, PUBLISHED included, and never
\* the 400 of a lifecycle rule.
C11_ForbiddenBeforeLifecycle ==
  [][ \A op \in {"updatePost", "deletePost"} :
        (/\ ReqOnStored(op)
         /\ ReqPost.createdBy # Req.user
         /\ Role(Req.user) \notin {"SUPER_ADMIN", "MARKETING_HEAD"}) =>
          /\ Req.code = 403
          /\ Req.code # 400
          /\ Req.message \notin {"Cannot update published posts",
                                 "Only draft posts can be submitted for approval",
                                 "Post is not pending approval",
                                 "Only scheduled posts can be published"} ]_vars

\* updatePost refused with 403 on a PUBLISHED post.
C11_Witness ==
  /\ response.op = "updatePost" /\ response.code = 403
  /\ response.id \in DOMAIN posts
  /\ posts[response.id].status = "PUBLISHED"

\* ---------------------------------------------------------------------
\* Leads: the Lead schema and the lead controller.
\* ---------------------------------------------------------------------

MinScore == 0
MaxScore == 100

\* Cap on the length of a lead's activity list.
MaxActivities == 2

LeadIds == {1, 2}

LeadStatus ==
  {"NEW", "QUALIFIED", "CONTACTED", "ENGAGED", "OPPORTUNITY", "CONVERTED", "LOST"}

ActivityTypes == {"CALL", "EMAIL", "MEETING", "NOTE", "TASK"}

\* The email setter of the schema (lowercase: true, trim: true); Mongoose
\* applies it to the value stored and to the value of a query filter.
Lowercase(email) ==
  CASE email = "A@x.io" -> "a@x.io"
    [] email = " b@x.io" -> "b@x.io"
    [] OTHER -> email

\* body[key] || default of a request body that may lack the key.
Field(body, key, default) == IF key \in DOMAIN body THEN body[key] ELSE default

PutLead(ls, id, lead) ==
  [i \in DOMAIN ls \cup {id} |-> IF i = id THEN lead ELSE ls[i]]

\* Lead.findOne({ email }).
FindOneByEmail(ls, email) == {i \in DOMAIN ls : ls[i].email = Lowercase(email)}

\* Mutant: the score path has no min/max validators.
SchemaValidNoScore(doc) == doc.status \in LeadStatus

\* The schema's validators on the modelled paths (score min/max, status enum).
SchemaValid(doc) ==
  /\ doc.score >= MinScore
  /\ doc.score <= MaxScore
  /\ doc.status \in LeadStatus

\* Lead.create of createLead: only the destructured body fields are passed,
\* every other path takes its schema default.
NewLead(email) ==
  [email |-> Lowercase(email), status |-> "NEW", score |-> 0,
   assignedTo |-> NullUser, lastContactedAt |-> NullDate, activities |-> <<>>]

\* Lead.create({...leadData, source}) of bulkImportLeads: every schema path
\* present in the imported object is taken from it.
ImportedLead(leadData) ==
  [email |-> Lowercase(leadData.email),
   status |-> Field(leadData, "status", "NEW"),
   score |-> Field(leadData, "score", 0),
   assignedTo |-> Field(leadData, "assignedTo", NullUser),
   lastContactedAt |-> Field(leadData, "lastContactedAt", NullDate),
   activities |-> Field(leadData, "activities", <<>>)]

LeadAnswer(code, message, ls, next) ==
  [code |-> code, message |-> message, leads |-> ls, nextLead |-> next]

\* Mutant: createLead without the existing-email lookup.
CreateLeadNoLookup(ls, next, email) ==
  LeadAnswer(201, "Lead created successfully", PutLead(ls, next, NewLead(email)),
             next + 1)

CreateLeadHandler(ls, next, email) ==
  IF FindOneByEmail(ls, email) # {}
  THEN LeadAnswer(409, "Lead with this email already exists", ls, next)
  ELSE LeadAnswer(201, "Lead created successfully",
                  PutLead(ls, next, NewLead(email)), next + 1)

\* The for loop of bulkImportLeads: each item is looked up by email, then
\* created; a validation error is caught and counted as failed.
RECURSIVE ImportLoop(_, _, _)
ImportLoop(ls, next, items) ==
  IF items = <<>>
  THEN LeadAnswer(200, "Imported leads successfully", ls, next)
  ELSE LET leadData == Head(items)
           doc == ImportedLead(leadData)
           created == FindOneByEmail(ls, leadData.email) = {} /\ SchemaValid(doc)
       IN  IF created
           THEN ImportLoop(PutLead(ls, next, doc), next + 1, Tail(items))
           ELSE ImportLoop(ls, next, Tail(items))

BulkImportLeadsHandler(ls, next, items) ==
  IF Len(items) = 0
  THEN LeadAnswer(400, "Leads array is required", ls, next)
  ELSE ImportLoop(ls, next, items)

LeadAllowedUpdates ==
  {"firstName", "lastName", "phone", "company", "jobTitle", "source", "status",
   "customFields", "tags", "notes"}

\* updateLead: the allow-listed keys of the body, $set on the document.
UpdateLeadHandler(lead, patch) ==
  [f \in DOMAIN lead |->
     IF f \in DOMAIN patch /\ f \in LeadAllowedUpdates THEN patch[f] ELSE lead[f]]

\* updateLeadStatus.
UpdateLeadStatusHandler(lead, status, t) ==
  [lead EXCEPT !.status = status,
               !.lastContactedAt =
                  IF status = "CONTACTED" \/ status = "ENGAGED" THEN t ELSE @]

\* Mutant: the upper limit is tested with >=.
ScoreInRangeStrict(score) == ~(score < MinScore \/ score >= MaxScore)

\* The range test of updateLeadScore.
ScoreInRange(score) == ~(score < MinScore \/ score > MaxScore)

\* addActivity.
AddActivityHandler(lead, type, t) ==
  [lead EXCEPT !.activities = Append(@, [type |-> type, createdAt |-> t]),
               !.lastContactedAt =
                  IF type \in {"CALL", "EMAIL", "MEETING"} THEN t ELSE @]

\* The input domains of one lead specification: the request bodies its
\* callers send.
\*   ids       lead ids in use (req.params.id and the ids create assigns)
\*   users     callers (req.user)
\*   deleters  callers of deleteLead, the one operation that reads the role
\*   emails    createLead's body.email
\*   imports   bulkImportLeads' body.leads
\*   patches   updateLead's body
\*   statuses  updateLeadStatus' body.status
\*   scores    updateLeadScore's body.score
\*   assignees assignLead's body.userId
\*   types     addActivity's body.type
\*   maxActs   cap on the length of a lead's activity list
LeadNotFound == "Lead not found"

LeadStep(op, user, id, body, t, code, message, ls, next) ==
  /\ leads' = ls
  /\ nextLead' = next
  /\ response' = [op |-> op, user |-> user, id |-> id, body |-> body,
                  code |-> code, message |-> message]
  /\ now' = t
  /\ UNCHANGED <<postVars, campaigns, records, raceVars>>

createLead(in) ==
  \E user \in in.users, email \in in.emails, t \in Later :
    LET ans == CreateLeadHandler(leads, nextLead, email)
    IN  /\ DOMAIN ans.leads \subseteq in.ids
        /\ LeadStep("createLead", user, nextLead, email, t,
                    ans.code, ans.message, ans.leads, ans.nextLead)

bulkImportLeads(in) ==
  \E user \in in.users, items \in in.imports, t \in Later :
    LET ans == BulkImportLeadsHandler(leads, nextLead, items)
    IN  /\ DOMAIN ans.leads \subseteq in.ids
        /\ LeadStep("bulkImportLeads", user, 0, items, t,
                    ans.code, ans.message, ans.leads, ans.nextLead)

updateLead(in) ==
  \E user \in in.users, id \in in.ids, patch \in in.patches, t \in Later :
    IF id \notin DOMAIN leads
    THEN LeadStep("updateLead", user, id, patch, t, 404, LeadNotFound,
                  leads, nextLead)
    ELSE LeadStep("updateLead", user, id, patch, t, 200,
                  "Lead updated successfully",
                  PutLead(leads, id, UpdateLeadHandler(leads[id], patch)),
                  nextLead)

deleteLead(in) ==
  \E user \in in.deleters, id \in in.ids, t \in Later :
    IF id \notin DOMAIN leads
    THEN LeadStep("deleteLead", user, id, <<>>, t, 404, LeadNotFound,
                  leads, nextLead)
    ELSE IF Role(user) # "SUPER_ADMIN" /\ Role(user) # "MARKETING_HEAD"
    THEN LeadStep("deleteLead", user, id, <<>>, t, 403,
                  "Not authorized to delete leads", leads, nextLead)
    ELSE LeadStep("deleteLead", user, id, <<>>, t, 200,
                  "Lead deleted successfully",
                  [i \in DOMAIN leads \ {id} |-> leads[i]], nextLead)

assignLead(in) ==
  \E user \in in.users, id \in in.ids, userId \in in.assignees, t \in Later :
    IF id \notin DOMAIN leads
    THEN LeadStep("assignLead", user, id, userId, t, 404, LeadNotFound,
                  leads, nextLead)
    ELSE LeadStep("assignLead", user, id, userId, t, 200,
                  "Lead assigned successfully",
                  PutLead(leads, id, [leads[id] EXCEPT !.assignedTo = userId]),
                  nextLead)

updateLeadStatus(in) ==
  \E user \in in.users, id \in in.ids, status \in in.statuses, t \in Later :
    IF id \notin DOMAIN leads
    THEN LeadStep("updateLeadStatus", user, id, status, t, 404, LeadNotFound,
                  leads, nextLead)
    ELSE LeadStep("updateLeadStatus", user, id, status, t, 200,
                  "Lead status updated successfully",
                  PutLead(leads, id, UpdateLeadStatusHandler(leads[id], status, t)),
                  nextLead)

updateLeadScore(in) ==
  \E user \in in.users, id \in in.ids, score \in in.scores, t \in Later :
    IF ~ScoreInRange(score)
    THEN LeadStep("updateLeadScore", user, id, score, t, 400,
                  "Score must be between 0 and 100", leads, nextLead)
    ELSE IF id \notin DOMAIN leads
    THEN LeadStep("updateLeadScore", user, id, score, t, 404, LeadNotFound,
                  leads, nextLead)
    ELSE LeadStep("updateLeadScore", user, id, score, t, 200,
                  "Lead score updated successfully",
                  PutLead(leads, id, [leads[id] EXCEPT !.score = score]),
                  nextLead)

addActivity(in) ==
  \E user \in in.users, id \in in.ids, type \in in.types, t \in Later :
    IF id \notin DOMAIN leads
    THEN LeadStep("addActivity", user, id, type, t, 404, LeadNotFound,
                  leads, nextLead)
    ELSE /\ Len(leads[id].activities) < in.maxActs
         /\ LeadStep("addActivity", user, id, type, t, 200,
                     "Activity added successfully",
                     PutLead(leads, id, AddActivityHandler(leads[id], type, t)),
                     nextLead)

NextLead(in) ==
  \/ createLead(in)
  \/ bulkImportLeads(in)
  \/ updateLead(in)
  \/ deleteLead(in)
  \/ assignLead(in)
  \/ updateLeadStatus(in)
  \/ updateLeadScore(in)
  \/ addActivity(in)

\* Scores around both limits, through the score operation, the general
\* update and the import.
ScoreInputs ==
  [ids |-> LeadIds,
   users |-> {"ann"},
   deleters |-> {"ann", "sam"},
   emails |-> {"a@x.io"},
   imports |-> {<<>>}
               \cup {<<[email |-> "b@x.io", score |-> sc]>> :
                       sc \in {MinScore - 1, MaxScore, MaxScore + 1}},
   patches |-> {[score |-> MaxScore + 1], [status |-> "QUALIFIED"]},
   statuses |-> {"QUALIFIED"},
   scores |-> {MinScore - 1, MinScore, MaxScore, MaxScore + 1},
   assignees |-> {"mia"},
   types |-> {"NOTE"},
   maxActs |-> 1]

NextLeadScore == NextLead(ScoreInputs)

SpecLeadScore == Init /\ [][NextLeadScore]_vars

\* C12: in every state reachable by createLead, bulkImportLeads, updateLead,
\* updateLeadStatus, updateLeadScore, assignLead, addActivity and deleteLead
\* calls, every stored lead has 0 <= score <= 100.
C12_ScoreWithinRange ==
  \A i \in DOMAIN leads : 0 <= leads[i].score /\ leads[i].score <= 100

\* An import of a lead with score 101 has been answered and stored nothing.
C12_Witness ==
  /\ response.op = "bulkImportLeads"
  /\ response.code = 200
  /\ Len(response.body) = 1
  /\ response.body[1].score = 101
  /\ FindOneByEmail(leads, response.body[1].email) = {}

\* C13: for an existing lead and an integer s, updateLeadScore succeeds iff
\* 0 <= s <= 100; on success the score is s and no other lead field (and no
\* other lead) changes; on failure the answer is the out-of-range error and
\* the stored score keeps its previous value.
C13_UpdateScoreIffInRange ==
  [][ (Req.op = "updateLeadScore" /\ Req.id \in DOMAIN leads) =>
        /\ (Req.code = 200) <=> (0 <= Req.body /\ Req.body <= 100)
        /\ (Req.code = 200) =>
             /\ leads' = [leads EXCEPT ![Req.id].score = Req.body]
             /\ nextLead' = nextLead
        /\ (Req.code # 200) =>
             /\ Req.code = 400
             /\ Req.message = "Score must be between 0 and 100"
             /\ leads' = leads ]_vars

\* The upper limit 100 has been accepted on a stored lead.
C13_Witness ==
  /\ response.op = "updateLeadScore"
  /\ response.code = 200
  /\ response.body = 100
  /\ response.id \in DOMAIN leads
  /\ leads[response.id].score = 100

\* Status writes through both operations that can set status.
StatusInputs ==
  [ids |-> {1},
   users |-> {"ann"},
   deleters |-> {"ann", "sam"},
   emails |-> {"a@x.io"},
   imports |-> {<<>>, <<[email |-> "b@x.io", status |-> "CONTACTED"]>>},
   patches |-> {[status |-> "CONTACTED"], [status |-> "LOST"]},
   statuses |-> {"QUALIFIED", "CONTACTED", "ENGAGED"},
   scores |-> {MaxScore},
   assignees |-> {"mia"},
   types |-> {"NOTE"},
   maxActs |-> 1]

NextLeadStatus == NextLead(StatusInputs)

SpecLeadStatus == Init /\ [][NextLeadStatus]_vars

\* Activities of both kinds, and imported objects that carry the paths
\* addActivity maintains (activities, lastContactedAt).
ActivityInputs ==
  [ids |-> {1},
   users |-> {"ann"},
   deleters |-> {"ann", "sam"},
   emails |-> {"a@x.io"},
   imports |-> {<<>>,
                <<[email |-> "b@x.io", lastContactedAt |-> MaxTime]>>,
                <<[email |-> "b@x.io",
                   activities |-> <<[type |-> "CALL", createdAt |-> MaxTime],
                                    [type |-> "NOTE", createdAt |-> 1]>>]>>},
   patches |-> {[activities |-> <<>>], [lastContactedAt |-> NullDate]},
   statuses |-> {"CONTACTED"},
   scores |-> {MaxScore},
   assignees |-> {"mia"},
   types |-> {"CALL", "NOTE"},
   maxActs |-> MaxActivities]

NextLeadActivity == NextLead(ActivityInputs)

SpecLeadActivity == Init /\ [][NextLeadActivity]_vars

\* Emails that differ from a stored one only by case or surrounding blanks.
EmailInputs ==
  [ids |-> LeadIds,
   users |-> {"ann"},
   deleters |-> {"ann", "sam"},
   emails |-> {"a@x.io", "A@x.io", "b@x.io"},
   imports |-> {<<>>,
                <<[email |-> "A@x.io"]>>,
                <<[email |-> "b@x.io"], [email |-> " b@x.io"]>>},
   patches |-> {[email |-> "a@x.io"], [status |-> "LOST"]},
   statuses |-> {"QUALIFIED"},
   scores |-> {MaxScore},
   assignees |-> {"mia"},
   types |-> {"NOTE"},
   maxActs |-> 1]

NextLeadEmail == NextLead(EmailInputs)

SpecLeadEmail == Init /\ [][NextLeadEmail]_vars

\* The status a successful request writes to stored lead Req.id, or "none".
WrittenStatus ==
  IF Req.id \notin DOMAIN leads \/ Req.code # 200 THEN "none"
  ELSE IF Req.op = "updateLeadStatus" THEN Req.body
  ELSE IF Req.op = "updateLead" /\ "status" \in DOMAIN Req.body
  THEN Req.body.status
  ELSE "none"

\* C14: every operation that changes a lead's status to CONTACTED or
\* ENGAGED, through updateLeadStatus or through updateLead with a status
\* field, sets lastContactedAt to the time of the operation; a status write
\* to any other value leaves lastContactedAt unchanged.
C14_StatusWriteStampsContact ==
  [][ WrittenStatus # "none" =>
        IF WrittenStatus \in {"CONTACTED", "ENGAGED"}
        THEN leads'[Req.id].lastContactedAt = now'
        ELSE leads'[Req.id].lastContactedAt = leads[Req.id].lastContactedAt ]_vars

\* A successful addActivity request on a stored lead.
ActivityAdded ==
  Req.op = "addActivity" /\ Req.code = 200 /\ Req.id \in DOMAIN leads

\* C15: addActivity with type CALL, EMAIL or MEETING always sets
\* lastContactedAt to a timestamp greater than or equal to its previous
\* value, whatever the lead's status; with type NOTE or TASK it never
\* changes lastContactedAt.
C15_ContactStampNeverGoesBack ==
  [][ ActivityAdded =>
        IF Req.body \in {"CALL", "EMAIL", "MEETING"}
        THEN /\ leads'[Req.id].lastContactedAt # NullDate
             /\ leads'[Req.id].lastContactedAt >= leads[Req.id].lastContactedAt
        ELSE leads'[Req.id].lastContactedAt = leads[Req.id].lastContactedAt ]_vars

IsPrefix(s, t) == Len(s) <= Len(t) /\ \A k \in 1..Len(s) : s[k] = t[k]

NonDecreasing(acts) ==
  \A k \in 1..(Len(acts) - 1) : acts[k].createdAt <= acts[k + 1].createdAt

\* C16: a lead's activity list is append-only and ordered: after each
\* operation on an existing lead the list has the list before it as a
\* prefix, addActivity extends it by exactly one record stamped by the
\* engine, and timestamps along the list are non-decreasing.
C16_ActivitiesAppendOnlyOrdered ==
  [][ \A id \in DOMAIN leads \cap DOMAIN leads' :
        /\ IsPrefix(leads[id].activities, leads'[id].activities)
        /\ (ActivityAdded /\ Req.id = id) =>
             /\ Len(leads'[id].activities) = Len(leads[id].activities) + 1
             /\ leads'[id].activities[Len(leads'[id].activities)].createdAt = now'
        /\ NonDecreasing(leads'[id].activities) ]_vars

UniqueEmails(ls) ==
  \A i, j \in DOMAIN ls : ls[i].email = ls[j].email => i = j

\* C17: createLead fails with the duplicate-email error whenever a stored
\* lead already has the given email, and then creates nothing and changes no
\* lead; after any sequence of sequential requests no two stored leads share
\* an email.
C17_DuplicateEmailRejected ==
  [][ /\ (Req.op = "createLead" /\ FindOneByEmail(leads, Req.body) # {}) =>
           /\ Req.code = 409
           /\ Req.message = "Lead with this email already exists"
           /\ leads' = leads
           /\ nextLead' = nextLead
      /\ UniqueEmails(leads') ]_vars

\* createLead has refused an email that differs from a stored one by case.
C17_Witness ==
  /\ response.op = "createLead"
  /\ response.code = 409
  /\ response.body = "A@x.io"
  /\ \E i \in DOMAIN leads : leads[i].email = "a@x.io"

\* ---------------------------------------------------------------------
\* Campaigns: the Campaign schema and the campaign controller.
\* ---------------------------------------------------------------------

CampaignIds == {1}

CampaignStatus == {"DRAFT", "ACTIVE", "PAUSED", "COMPLETED"}

\* Ids a caller may send as postId / leadId; neither handler looks them up.
MemberPostIds == {"p1", "p2"}
MemberLeadIds == {"l1", "l2"}

\* performanceMetrics as the schema declares it, every path at its default.
DefaultMetrics ==
  [impressions |-> 0, clicks |-> 0, conversions |-> 0,
   ctr |-> 0, cpc |-> 0, roas |-> 0]

\* body.metrics of updateCampaignMetrics: recognized keys, keys the schema
\* does not declare (reach, spend), both, and a body without metrics.
MetricsPatches ==
  {<<>>,
   [clicks |-> 5],
   [impressions |-> 7, reach |-> 9],
   [spend |-> 3]}

CampaignPatches == {[status |-> "ACTIVE"], [budget |-> 10], [posts |-> <<>>]}

CampaignStatusInputs == {"PAUSED"}

\* Callers of the operations that read neither the caller's id nor its role.
CampaignCallers == {"ann"}

NewCampaign(user) ==
  [createdBy |-> user, status |-> "DRAFT", budget |-> 0,
   posts |-> <<>>, leads |-> <<>>, performanceMetrics |-> DefaultMetrics]

Includes(list, id) == \E k \in 1..Len(list) : list[k] = id

CampaignAnswer(code, message, campaign) ==
  [code |-> code, message |-> message, campaign |-> campaign]

\* Mutant: addPostToCampaign without the includes test.
AddPostNoIncludes(campaign, postId) ==
  CampaignAnswer(200, "Post added to campaign successfully",
                 [campaign EXCEPT !.posts = Append(@, postId)])

AddPostToCampaignHandler(campaign, postId) ==
  IF Includes(campaign.posts, postId)
  THEN CampaignAnswer(400, "Post already in campaign", campaign)
  ELSE CampaignAnswer(200, "Post added to campaign successfully",
                      [campaign EXCEPT !.posts = Append(@, postId)])

AddLeadToCampaignHandler(campaign, leadId) ==
  IF Includes(campaign.leads, leadId)
  THEN CampaignAnswer(400, "Lead already in campaign", campaign)
  ELSE CampaignAnswer(200, "Lead added to campaign successfully",
                      [campaign EXCEPT !.leads = Append(@, leadId)])

CampaignAllowedUpdates ==
  {"name", "description", "type", "budget", "startDate", "endDate",
   "targetAudience", "status"}

UpdateCampaignHandler(campaign, user, patch) ==
  IF campaign.createdBy # user /\ Role(user) \notin {"SUPER_ADMIN", "MARKETING_HEAD"}
  THEN CampaignAnswer(403, "Not authorized to update this campaign", campaign)
  ELSE CampaignAnswer(200, "Campaign updated successfully",
         [f \in DOMAIN campaign |->
            IF f \in DOMAIN patch /\ f \in CampaignAllowedUpdates
            THEN patch[f] ELSE campaign[f]])

\* Mutant: every key of the patch is assigned.
MergeAllMetrics(performanceMetrics, metrics) ==
  [key \in DOMAIN performanceMetrics \cup DOMAIN metrics |->
     IF key \in DOMAIN metrics THEN metrics[key] ELSE performanceMetrics[key]]

\* The forEach of updateCampaignMetrics: a key of the patch is assigned when
\* performanceMetrics[key] !== undefined, i.e. when the schema declares it.
MergeMetrics(performanceMetrics, metrics) ==
  [key \in DOMAIN performanceMetrics |->
     IF key \in DOMAIN metrics THEN metrics[key] ELSE performanceMetrics[key]]

UpdateCampaignMetricsHandler(campaign, metrics) ==
  CampaignAnswer(200, "Campaign metrics updated successfully",
    [campaign EXCEPT !.performanceMetrics = MergeMetrics(@, metrics)])

CampaignNotFound == "Campaign not found"

CampaignStep(op, user, id, body, t, code, message, cs) ==
  /\ campaigns' = cs
  /\ response' = [op |-> op, user |-> user, id |-> id, body |-> body,
                  code |-> code, message |-> message]
  /\ now' = t
  /\ UNCHANGED <<postVars, leadVars, records, raceVars>>

\* A request on campaign id: 404 when it is not stored, else the handler's
\* answer and document.
OnCampaign(op, user, id, body, t, ans) ==
  IF id \notin DOMAIN campaigns
  THEN CampaignStep(op, user, id, body, t, 404, CampaignNotFound, campaigns)
  ELSE CampaignStep(op, user, id, body, t, ans.code, ans.message,
                    [campaigns EXCEPT ![id] = ans.campaign])

createCampaign ==
  \E user \in Users, id \in CampaignIds \ DOMAIN campaigns, t \in Later :
    CampaignStep("createCampaign", user, id, <<>>, t, 201,
                 "Campaign created successfully",
                 [i \in DOMAIN campaigns \cup {id} |->
                    IF i = id THEN NewCampaign(user) ELSE campaigns[i]])

updateCampaign ==
  \E user \in Users, id \in CampaignIds, patch \in CampaignPatches, t \in Later :
    OnCampaign("updateCampaign", user, id, patch, t,
               UpdateCampaignHandler(campaigns[id], user, patch))

deleteCampaign ==
  \E user \in Users, id \in CampaignIds, t \in Later :
    IF id \notin DOMAIN campaigns
    THEN CampaignStep("deleteCampaign", user, id, <<>>, t, 404,
                      CampaignNotFound, campaigns)
    ELSE IF Role(user) \notin {"SUPER_ADMIN", "MARKETING_HEAD"}
    THEN CampaignStep("deleteCampaign", user, id, <<>>, t, 403,
                      "Not authorized to delete campaigns", campaigns)
    ELSE CampaignStep("deleteCampaign", user, id, <<>>, t, 200,
                      "Campaign deleted successfully",
                      [i \in DOMAIN campaigns \ {id} |-> campaigns[i]])

addPostToCampaign ==
  \E user \in CampaignCallers, id \in CampaignIds, postId \in MemberPostIds, t \in Later :
    OnCampaign("addPostToCampaign", user, id, postId, t,
               AddPostToCampaignHandler(campaigns[id], postId))

addLeadToCampaign ==
  \E user \in CampaignCallers, id \in CampaignIds, leadId \in MemberLeadIds, t \in Later :
    OnCampaign("addLeadToCampaign", user, id, leadId, t,
               AddLeadToCampaignHandler(campaigns[id], leadId))

updateCampaignStatus ==
  \E user \in CampaignCallers, id \in CampaignIds, status \in CampaignStatusInputs,
     t \in Later :
    OnCampaign("updateCampaignStatus", user, id, status, t,
               CampaignAnswer(200, "Campaign status updated successfully",
                              [campaigns[id] EXCEPT !.status = status]))

updateCampaignMetrics ==
  \E user \in CampaignCallers, id \in CampaignIds, metrics \in MetricsPatches, t \in Later :
    OnCampaign("updateCampaignMetrics", user, id, metrics, t,
               UpdateCampaignMetricsHandler(campaigns[id], metrics))

NextCampaign ==
  \/ createCampaign
  \/ updateCampaign
  \/ deleteCampaign
  \/ addPostToCampaign
  \/ addLeadToCampaign
  \/ updateCampaignStatus
  \/ updateCampaignMetrics

SpecCampaign == Init /\ [][NextCampaign]_vars

NoDuplicates(list) ==
  \A j, k \in 1..Len(list) : list[j] = list[k] => j = k

\* The campaign a request addresses, before and after it.
ReqCampaign == campaigns[Req.id]
ReqCampaignAfter == campaigns'[Req.id]

\* C18: addPostToCampaign / addLeadToCampaign fail with the already-member
\* error when the id is in the campaign's corresponding list and otherwise
\* append it at the end; a failed add leaves both lists unchanged, and after
\* any sequence of adds no id appears twice in campaign.posts or in
\* campaign.leads.
C18_AddMemberOnce ==
  [][ /\ (Req.op = "addPostToCampaign" /\ Req.id \in DOMAIN campaigns) =>
           IF \E k \in 1..Len(ReqCampaign.posts) : ReqCampaign.posts[k] = Req.body
           THEN /\ Req.code = 400
                /\ Req.message = "Post already in campaign"
                /\ campaigns' = campaigns
           ELSE /\ Req.code = 200
                /\ ReqCampaignAfter.posts = ReqCampaign.posts \o <<Req.body>>
                /\ ReqCampaignAfter.leads = ReqCampaign.leads
      /\ (Req.op = "addLeadToCampaign" /\ Req.id \in DOMAIN campaigns) =>
           IF \E k \in 1..Len(ReqCampaign.leads) : ReqCampaign.leads[k] = Req.body
           THEN /\ Req.code = 400
                /\ Req.message = "Lead already in campaign"
                /\ campaigns' = campaigns
           ELSE /\ Req.code = 200
                /\ ReqCampaignAfter.leads = ReqCampaign.leads \o <<Req.body>>
                /\ ReqCampaignAfter.posts = ReqCampaign.posts
      /\ \A id \in DOMAIN campaigns' :
           /\ NoDuplicates(campaigns'[id].posts)
           /\ NoDuplicates(campaigns'[id].leads) ]_vars

\* A second add of a post already in a campaign of two posts was refused.
C18_Witness ==
  /\ response.op = "addPostToCampaign"
  /\ response.code = 400
  /\ response.id \in DOMAIN campaigns
  /\ Len(campaigns[response.id].posts) = 2
  /\ response.body = campaigns[response.id].posts[1]

\* C19: updateCampaignMetrics merges only the recognized keys impressions,
\* clicks, conversions, ctr, cpc and roas: a recognized key in the patch
\* takes the patch value, a recognized key absent from it keeps its value,
\* unrecognized keys are ignored without error and never added to
\* performanceMetrics, and no other campaign field changes.
C19_MetricsMergeRecognizedOnly ==
  [][ (Req.op = "updateCampaignMetrics" /\ Req.id \in DOMAIN campaigns) =>
        /\ Req.code = 200
        /\ DOMAIN ReqCampaignAfter.performanceMetrics =
             {"impressions", "clicks", "conversions", "ctr", "cpc", "roas"}
        /\ \A key \in {"impressions", "clicks", "conversions", "ctr", "cpc", "roas"} :
             ReqCampaignAfter.performanceMetrics[key] =
               IF key \in DOMAIN Req.body THEN Req.body[key]
               ELSE ReqCampaign.performanceMetrics[key]
        /\ \A f \in DOMAIN ReqCampaign \ {"performanceMetrics"} :
             ReqCampaignAfter[f] = ReqCampaign[f]
        /\ DOMAIN campaigns' = DOMAIN campaigns ]_vars

\* A patch with a recognized and an unrecognized key was applied to a
\* campaign whose clicks had been set before.
C19_Witness ==
  /\ response.op = "updateCampaignMetrics"
  /\ response.code = 200
  /\ "reach" \in DOMAIN response.body
  /\ response.id \in DOMAIN campaigns
  /\ campaigns[response.id].performanceMetrics.impressions = 7
  /\ campaigns[response.id].performanceMetrics.clicks = 5
  /\ campaigns[response.id].status = "PAUSED"

\* ---------------------------------------------------------------------
\* Analytics: the Analytics schema and the analytics controller.
\* ---------------------------------------------------------------------

MaxRecords == 2

\* The dates of records and of query bounds, as instants.
Days == {1, 2}

Platforms == {"INSTAGRAM", "FACEBOOK"}

\* An absent or empty platform query parameter.
NoPlatform == ""

\* body.metrics of createAnalytics.
MetricSamples ==
  {[impressions |-> 100, reach |-> 80, engagement |-> 10, clicks |-> 5,
    conversions |-> 1, spend |-> 20],
   [impressions |-> 200, reach |-> 0, engagement |-> 4, clicks |-> 8,
    conversions |-> 2, spend |-> 0],
   [impressions |-> 0, reach |-> 30, engagement |-> 0, clicks |-> 0,
    conversions |-> 3, spend |-> 9]}

AnalyticsBodies == [date : Days, platform : Platforms, metrics : MetricSamples]

\* req.query of getOverview: each parameter may be absent.
OverviewQueries ==
  [startDate : {NullDate} \cup Days, endDate : {NullDate} \cup Days,
   platform : {NoPlatform} \cup Platforms]

\* Mutant: each supplied bound filters on its own.
MatchStageEitherBound(record, query) ==
  /\ Truthy(query.startDate) => record.date >= query.startDate
  /\ Truthy(query.endDate) => record.date <= query.endDate
  /\ query.platform # NoPlatform => record.platform = query.platform

\* The $match stage getOverview builds: the date condition is added when
\* startDate && endDate, the platform condition when platform is truthy.
MatchStage(record, query) ==
  /\ (Truthy(query.startDate) /\ Truthy(query.endDate)) =>
       (record.date >= query.startDate /\ record.date <= query.endDate)
  /\ query.platform # NoPlatform => record.platform = query.platform

\* { $sum: '$metrics.<key>' } over the records that pass $match.
RECURSIVE GroupSum(_, _, _)
GroupSum(recs, query, key) ==
  IF recs = <<>> THEN 0
  ELSE (IF MatchStage(Head(recs), query) THEN Head(recs).metrics[key] ELSE 0)
       + GroupSum(Tail(recs), query, key)

\* overview[0] || zeros: the aggregate returns no group when nothing matches.
OverviewData(recs, query) ==
  IF \E k \in 1..Len(recs) : MatchStage(recs[k], query)
  THEN [totalImpressions |-> GroupSum(recs, query, "impressions"),
        totalReach |-> GroupSum(recs, query, "reach"),
        totalEngagement |-> GroupSum(recs, query, "engagement"),
        totalClicks |-> GroupSum(recs, query, "clicks"),
        totalConversions |-> GroupSum(recs, query, "conversions"),
        totalSpend |-> GroupSum(recs, query, "spend")]
  ELSE [totalImpressions |-> 0, totalReach |-> 0, totalEngagement |-> 0,
        totalClicks |-> 0, totalConversions |-> 0, totalSpend |-> 0]

\* (num / den).toFixed(2) for num >= 0 and den > 0, as a count of
\* hundredths, rounded half up.
ToFixed2(num, den) == (200 * num + den) \div (2 * den)

\* Mutant: the rate is computed without the denominator > 0 test; a number
\* divided by 0 is Infinity or NaN, which is not 0.
RateUnguarded(num, den, scale) ==
  IF den = 0 THEN -1 ELSE ToFixed2(scale * num, den)

\* den > 0 ? ((num / den) * scale).toFixed(2) : '0.00', in hundredths.
Rate(num, den, scale) ==
  IF den > 0 THEN ToFixed2(scale * num, den) ELSE 0

\* The answer of getOverview: the sums, and the four rates rendered with
\* their unit ('<ctr>%', '$<cpc>').
GetOverviewHandler(recs, query) ==
  LET data == OverviewData(recs, query)
  IN  [totalImpressions |-> data.totalImpressions,
       totalReach |-> data.totalReach,
       totalEngagement |-> data.totalEngagement,
       totalClicks |-> data.totalClicks,
       totalConversions |-> data.totalConversions,
       totalSpend |-> data.totalSpend,
       ctr |-> [hundredths |-> Rate(data.totalClicks, data.totalImpressions, 100),
                unit |-> "%"],
       engagementRate |->
         [hundredths |-> Rate(data.totalEngagement, data.totalReach, 100),
          unit |-> "%"],
       conversionRate |->
         [hundredths |-> Rate(data.totalConversions, data.totalClicks, 100),
          unit |-> "%"],
       cpc |-> [hundredths |-> Rate(data.totalSpend, data.totalClicks, 1),
                unit |-> "$"]]

\* The analytics handlers read no clock.
AnalyticsStep(op, user, body, code, message, data, recs) ==
  /\ records' = recs
  /\ response' = [op |-> op, user |-> user, id |-> 0, body |-> body,
                  code |-> code, message |-> message, data |-> data]
  /\ UNCHANGED <<now, postVars, leadVars, campaigns, raceVars>>

createAnalytics(bodies) ==
  \E user \in CampaignCallers, body \in bodies :
    /\ Len(records) < MaxRecords
    /\ AnalyticsStep("createAnalytics", user, body, 201,
                     "Analytics entry created", <<>>, Append(records, body))

getOverview ==
  \E user \in CampaignCallers, query \in OverviewQueries :
    AnalyticsStep("getOverview", user, query, 200, "",
                  GetOverviewHandler(records, query), records)

NextAnalytics == createAnalytics(AnalyticsBodies) \/ getOverview

SpecAnalytics == Init /\ [][NextAnalytics]_vars

\* The sum of one metric over the records at the given positions.
RECURSIVE SumAt(_, _)
SumAt(positions, key) ==
  IF positions = {} THEN 0
  ELSE LET k == CHOOSE k \in positions : TRUE
       IN  records[k].metrics[key] + SumAt(positions \ {k}, key)

\* The six totals of an answer equal the sums over the given positions.
TotalsAre(positions) ==
  /\ Req.data.totalImpressions = SumAt(positions, "impressions")
  /\ Req.data.totalReach = SumAt(positions, "reach")
  /\ Req.data.totalEngagement = SumAt(positions, "engagement")
  /\ Req.data.totalClicks = SumAt(positions, "clicks")
  /\ Req.data.totalConversions = SumAt(positions, "conversions")
  /\ Req.data.totalSpend = SumAt(positions, "spend")

PlatformMatches(k) ==
  Req.body.platform # "" => records[k].platform = Req.body.platform

\* C20 as stated: overview returns, for each of the six metrics, the sum
\* over the records that match the filter, where a record matches iff its
\* date lies inside the supplied date range, each supplied date bound
\* counting, and its platform equals the supplied platform; with no filter
\* it sums over all records.
C20_OverviewSumsEveryBound ==
  [][ Req.op = "getOverview" =>
        TotalsAre({k \in 1..Len(records) :
                     /\ Req.body.startDate # 0 => records[k].date >= Req.body.startDate
                     /\ Req.body.endDate # 0 => records[k].date <= Req.body.endDate
                     /\ PlatformMatches(k)}) ]_vars

\* C20 amended: the date condition applies only when both startDate and
\* endDate are supplied (then startDate <= date <= endDate); a single bound
\* is ignored. The platform condition applies when a platform is supplied;
\* with no filter the sums run over all records.
C20_OverviewSumsBothBounds ==
  [][ Req.op = "getOverview" =>
        TotalsAre({k \in 1..Len(records) :
                     /\ (Req.body.startDate # 0 /\ Req.body.endDate # 0) =>
                          (/\ records[k].date >= Req.body.startDate
                           /\ records[k].date <= Req.body.endDate)
                     /\ PlatformMatches(k)}) ]_vars

\* An overview with only startDate supplied has counted a record dated
\* before it: two records of impressions 100 and 200 gave 300.
C20_Witness ==
  /\ response.op = "getOverview"
  /\ response.body.startDate = 2
  /\ response.body.endDate = 0
  /\ response.body.platform = ""
  /\ Len(records) = 2
  /\ records[1].date = 1
  /\ records[1].metrics.impressions = 100
  /\ records[2].metrics.impressions = 200
  /\ response.data.totalImpressions = 300

\* C21: overview with zero matching records returns all six sums equal to 0
\* and all four derived rates equal to 0; more generally each derived rate
\* is 0 whenever its denominator (impressions, reach, clicks, clicks) is 0.
C21_RatesZeroOnZeroDenominator ==
  [][ Req.op = "getOverview" =>
        /\ (~ \E k \in 1..Len(records) : MatchStage(records[k], Req.body)) =>
             /\ TotalsAre({})
             /\ Req.data.ctr.hundredths = 0
             /\ Req.data.engagementRate.hundredths = 0
             /\ Req.data.conversionRate.hundredths = 0
             /\ Req.data.cpc.hundredths = 0
        /\ Req.data.totalImpressions = 0 => Req.data.ctr.hundredths = 0
        /\ Req.data.totalReach = 0 => Req.data.engagementRate.hundredths = 0
        /\ Req.data.totalClicks = 0 =>
             /\ Req.data.conversionRate.hundredths = 0
             /\ Req.data.cpc.hundredths = 0 ]_vars

\* An overview over records with clicks 0 but conversions and spend above 0.
C21_Witness ==
  /\ response.op = "getOverview"
  /\ response.data.totalClicks = 0
  /\ response.data.totalConversions > 0
  /\ response.data.totalSpend > 0
  /\ response.data.conversionRate.hundredths = 0
  /\ response.data.cpc.hundredths = 0

\* ---------------------------------------------------------------------
\* Analytics: time series.
\* ---------------------------------------------------------------------

\* Five instants, in time order, and the calendar fields the aggregation
\* operators ($year, $month, $dayOfMonth, $hour, $week) read from them:
\*   1  2024-12-31 10:00   2  2025-01-01 09:00   3  2025-01-01 15:00
\*   4  2025-01-04 09:00   5  2025-01-05 09:00
\* $week counts weeks that begin on Sunday; the days before the year's first
\* Sunday are week 0.
SeriesDays == {1, 2, 3, 4, 5}

Calendar(date) ==
  CASE date = 1 -> [year |-> 2024, month |-> 12, day |-> 31, hour |-> 10, week |-> 52]
    [] date = 2 -> [year |-> 2025, month |-> 1, day |-> 1, hour |-> 9, week |-> 0]
    [] date = 3 -> [year |-> 2025, month |-> 1, day |-> 1, hour |-> 15, week |-> 0]
    [] date = 4 -> [year |-> 2025, month |-> 1, day |-> 4, hour |-> 9, week |-> 0]
    [] date = 5 -> [year |-> 2025, month |-> 1, day |-> 5, hour |-> 9, week |-> 1]

SeriesMetrics ==
  [impressions |-> 100, reach |-> 80, engagement |-> 10, clicks |-> 5,
   conversions |-> 1, spend |-> 20]

\* body of createAnalytics: a record on each instant for one platform, and
\* one for another platform.
SeriesBodies ==
  [date : SeriesDays, platform : {"INSTAGRAM"}, metrics : {SeriesMetrics}]
    \cup {[date |-> 2, platform |-> "FACEBOOK", metrics |-> SeriesMetrics]}

\* req.query of getTimeSeries; "yearly" stands for any unlisted granularity.
Granularities == {"hourly", "daily", "weekly", "monthly", "yearly"}

SeriesFilters ==
  {[startDate |-> NullDate, endDate |-> NullDate, platform |-> NoPlatform],
   [startDate |-> 2, endDate |-> 4, platform |-> NoPlatform],
   [startDate |-> 3, endDate |-> NullDate, platform |-> NoPlatform],
   [startDate |-> NullDate, endDate |-> NullDate, platform |-> "INSTAGRAM"]}

\* The groupBy document of the granularity switch, as the tuple of its
\* values in field order.
GroupBy(date, granularity) ==
  LET c == Calendar(date)
  IN  CASE granularity = "hourly" -> <<c.year, c.month, c.day, c.hour>>
        [] granularity = "weekly" -> <<c.year, c.week>>
        [] granularity = "monthly" -> <<c.year, c.month>>
        [] OTHER -> <<c.year, c.month, c.day>>

\* Mutant: each supplied bound filters on its own.
SeriesMatchEitherBound(record, query) ==
  /\ Truthy(query.startDate) => record.date >= query.startDate
  /\ Truthy(query.endDate) => record.date <= query.endDate
  /\ query.platform # NoPlatform => record.platform = query.platform

\* The $match stage getTimeSeries builds.
SeriesMatchStage(record, query) ==
  /\ (Truthy(query.startDate) /\ Truthy(query.endDate)) =>
       (record.date >= query.startDate /\ record.date <= query.endDate)
  /\ query.platform # NoPlatform => record.platform = query.platform

\* Mutant: the comparison of two _id documents reads the fields from the
\* last to the first.
RECURSIVE IdLessFromLast(_, _)
IdLessFromLast(a, b) ==
  IF a = <<>> THEN FALSE
  ELSE LET n == Len(a)
       IN  \/ a[n] < b[n]
           \/ a[n] = b[n] /\ IdLessFromLast(SubSeq(a, 1, n - 1), SubSeq(b, 1, n - 1))

\* The order of { $sort: { '_id': 1 } } on two _id documents of the same
\* shape: field by field, in field order.
RECURSIVE IdLess(_, _)
IdLess(a, b) ==
  IF a = <<>> THEN FALSE
  ELSE \/ Head(a) < Head(b)
       \/ Head(a) = Head(b) /\ IdLess(Tail(a), Tail(b))

\* { $sum: '$metrics.<key>' } of one group.
RECURSIVE BucketSum(_, _, _, _)
BucketSum(recs, query, id, key) ==
  IF recs = <<>> THEN 0
  ELSE (IF /\ SeriesMatchStage(Head(recs), query)
           /\ GroupBy(Head(recs).date, query.granularity) = id
        THEN Head(recs).metrics[key] ELSE 0)
       + BucketSum(Tail(recs), query, id, key)

Bucket(recs, query, id) ==
  [id |-> id,
   impressions |-> BucketSum(recs, query, id, "impressions"),
   reach |-> BucketSum(recs, query, id, "reach"),
   engagement |-> BucketSum(recs, query, id, "engagement"),
   clicks |-> BucketSum(recs, query, id, "clicks"),
   conversions |-> BucketSum(recs, query, id, "conversions"),
   spend |-> BucketSum(recs, query, id, "spend")]

\* The $sort stage: the groups in ascending order of _id.
RECURSIVE SortById(_)
SortById(ids) ==
  IF ids = {} THEN <<>>
  ELSE LET first == CHOOSE a \in ids : \A b \in ids \ {a} : IdLess(a, b)
       IN  <<first>> \o SortById(ids \ {first})

\* getTimeSeries: $match, $group by the granularity's key, $sort.
GetTimeSeriesHandler(recs, query) ==
  LET ids == {GroupBy(recs[k].date, query.granularity) :
                k \in {j \in 1..Len(recs) : SeriesMatchStage(recs[j], query)}}
      sorted == SortById(ids)
  IN  [k \in 1..Len(sorted) |-> Bucket(recs, query, sorted[k])]

SeriesQueries ==
  {[startDate |-> f.startDate, endDate |-> f.endDate, platform |-> f.platform,
    granularity |-> g] : f \in SeriesFilters, g \in Granularities}

getTimeSeries ==
  \E user \in CampaignCallers, query \in SeriesQueries :
    AnalyticsStep("getTimeSeries", user, query, 200, "",
                  GetTimeSeriesHandler(records, query), records)

NextTimeSeries == createAnalytics(SeriesBodies) \/ getTimeSeries

SpecTimeSeries == Init /\ [][NextTimeSeries]_vars

\* The sum of one metric over the buckets of a time-series answer.
RECURSIVE BucketsTotal(_, _)
BucketsTotal(buckets, key) ==
  IF buckets = <<>> THEN 0
  ELSE Head(buckets)[key] + BucketsTotal(Tail(buckets), key)

\* C22: for every granularity and every filter, summing each metric over
\* all buckets returned by timeSeries gives the same totals as overview over
\* the same filtered record set.
C22_SeriesSumsEqualOverview ==
  [][ Req.op = "getTimeSeries" =>
        LET overview == OverviewData(records, Req.body)
        IN  /\ BucketsTotal(Req.data, "impressions") = overview.totalImpressions
            /\ BucketsTotal(Req.data, "reach") = overview.totalReach
            /\ BucketsTotal(Req.data, "engagement") = overview.totalEngagement
            /\ BucketsTotal(Req.data, "clicks") = overview.totalClicks
            /\ BucketsTotal(Req.data, "conversions") = overview.totalConversions
            /\ BucketsTotal(Req.data, "spend") = overview.totalSpend ]_vars

\* A weekly series over a date range merged the two records inside the
\* range into one bucket of 200 impressions.
C22_Witness ==
  /\ response.op = "getTimeSeries"
  /\ response.body.granularity = "weekly"
  /\ response.body.startDate = 2
  /\ response.body.endDate = 4
  /\ Len(records) = 2
  /\ records[1].date = 4
  /\ records[2].date = 2
  /\ Len(response.data) = 1
  /\ response.data[1].impressions = 200

\* The positions of the records a time-series request matches.
SeriesMatching ==
  {k \in 1..Len(records) :
     /\ (Req.body.startDate # 0 /\ Req.body.endDate # 0) =>
          (/\ records[k].date >= Req.body.startDate
           /\ records[k].date <= Req.body.endDate)
     /\ Req.body.platform # "" => records[k].platform = Req.body.platform}

\* The calendar key of a record under the request's granularity.
CalendarKey(k) ==
  LET c == Calendar(records[k].date)
  IN  CASE Req.body.granularity = "hourly" -> <<c.year, c.month, c.day, c.hour>>
        [] Req.body.granularity = "daily" -> <<c.year, c.month, c.day>>
        [] Req.body.granularity = "weekly" -> <<c.year, c.week>>
        [] Req.body.granularity = "monthly" -> <<c.year, c.month>>

LexBefore(a, b) ==
  \E i \in 1..Len(a) : a[i] < b[i] /\ \A j \in 1..(i - 1) : a[j] = b[j]

\* C23: timeSeries partitions the matching records by the granularity's
\* calendar key (hourly: year,month,day,hour; daily: year,month,day; weekly:
\* year,week; monthly: year,month): every matching record contributes to
\* exactly one bucket, each key occurs in at most one bucket, no bucket is
\* empty, and buckets come in strictly ascending lexicographic order of the
\* key tuple.
C23_SeriesPartitionSorted ==
  [][ (/\ Req.op = "getTimeSeries"
       /\ Req.body.granularity \in {"hourly", "daily", "weekly", "monthly"}) =>
        /\ \A k \in SeriesMatching :
             \E i \in 1..Len(Req.data) :
               /\ Req.data[i].id = CalendarKey(k)
               /\ \A j \in 1..Len(Req.data) :
                    Req.data[j].id = CalendarKey(k) => j = i
        /\ \A i \in 1..Len(Req.data) :
             LET members == {k \in SeriesMatching : CalendarKey(k) = Req.data[i].id}
             IN  /\ members # {}
                 /\ Req.data[i].impressions = SumAt(members, "impressions")
                 /\ Req.data[i].reach = SumAt(members, "reach")
                 /\ Req.data[i].engagement = SumAt(members, "engagement")
                 /\ Req.data[i].clicks = SumAt(members, "clicks")
                 /\ Req.data[i].conversions = SumAt(members, "conversions")
                 /\ Req.data[i].spend = SumAt(members, "spend")
        /\ \A i \in 1..(Len(Req.data) - 1) :
             LexBefore(Req.data[i].id, Req.data[i + 1].id) ]_vars

\* A monthly series put December 2024 before January 2025, the records
\* having been stored in the other order.
C23_Witness ==
  /\ response.op = "getTimeSeries"
  /\ response.body.granularity = "monthly"
  /\ Len(records) = 2
  /\ records[1].date = 2
  /\ records[2].date = 1
  /\ Len(response.data) = 2
  /\ response.data[1].id = <<2024, 12>>
  /\ response.data[2].id = <<2025, 1>>

\* ---------------------------------------------------------------------
\* Analytics: platform breakdown.
\* ---------------------------------------------------------------------

BreakdownBodies ==
  [date : Days, platform : Platforms,
   metrics : {[impressions |-> 100, reach |-> 80, engagement |-> 10,
               clicks |-> 5, conversions |-> 1, spend |-> 20],
              [impressions |-> 200, reach |-> 0, engagement |-> 4,
               clicks |-> 8, conversions |-> 2, spend |-> 0]}]

\* req.query of getPlatformBreakdown: startDate and endDate only.
BreakdownQueries == [startDate : {NullDate} \cup Days, endDate : {NullDate} \cup Days]

\* The $match stage getPlatformBreakdown builds.
BreakdownMatchStage(record, query) ==
  (Truthy(query.startDate) /\ Truthy(query.endDate)) =>
    (record.date >= query.startDate /\ record.date <= query.endDate)

\* { $sum: '$metrics.<key>' } of one platform's group.
RECURSIVE PlatformSum(_, _, _, _)
PlatformSum(recs, query, platform, key) ==
  IF recs = <<>> THEN 0
  ELSE (IF BreakdownMatchStage(Head(recs), query) /\ Head(recs).platform = platform
        THEN Head(recs).metrics[key] ELSE 0)
       + PlatformSum(Tail(recs), query, platform, key)

PlatformGroup(recs, query, platform) ==
  [platform |-> platform,
   impressions |-> PlatformSum(recs, query, platform, "impressions"),
   reach |-> PlatformSum(recs, query, platform, "reach"),
   engagement |-> PlatformSum(recs, query, platform, "engagement"),
   clicks |-> PlatformSum(recs, query, platform, "clicks"),
   conversions |-> PlatformSum(recs, query, platform, "conversions"),
   spend |-> PlatformSum(recs, query, platform, "spend")]

\* Mutant: the sort is ascending.
SortedAscending(a, b) == a.engagement <= b.engagement

\* { $sort: { engagement: -1 } } allows a before b.
SortedDescending(a, b) == a.engagement >= b.engagement

\* The answers getPlatformBreakdown can give: the groups of the matching
\* records in an order the sort allows; groups of equal engagement come in
\* either order.
PlatformBreakdowns(recs, query) ==
  LET platforms == {recs[k].platform :
                      k \in {j \in 1..Len(recs) : BreakdownMatchStage(recs[j], query)}}
      groups == {PlatformGroup(recs, query, p) : p \in platforms}
      n == Cardinality(groups)
  IN  {data \in [1..n -> groups] :
         /\ \A i, j \in 1..n : data[i] = data[j] => i = j
         /\ \A i \in 1..(n - 1) : SortedDescending(data[i], data[i + 1])}

getPlatformBreakdown ==
  \E user \in CampaignCallers, query \in BreakdownQueries :
    \E data \in PlatformBreakdowns(records, query) :
      AnalyticsStep("getPlatformBreakdown", user, query, 200, "", data, records)

NextBreakdown == createAnalytics(BreakdownBodies) \/ getPlatformBreakdown

SpecBreakdown == Init /\ [][NextBreakdown]_vars

\* The positions of the records a breakdown request matches.
BreakdownMatching ==
  {k \in 1..Len(records) :
     (Req.body.startDate # 0 /\ Req.body.endDate # 0) =>
       (/\ records[k].date >= Req.body.startDate
        /\ records[k].date <= Req.body.endDate)}

\* C24: platformBreakdown returns exactly one entry per distinct platform
\* among the matching records, each carrying the sums of the six metrics of
\* that platform's records, with entries ordered by non-increasing
\* engagement.
C24_BreakdownPerPlatformSorted ==
  [][ Req.op = "getPlatformBreakdown" =>
        /\ {Req.data[i].platform : i \in 1..Len(Req.data)} =
             {records[k].platform : k \in BreakdownMatching}
        /\ \A i, j \in 1..Len(Req.data) :
             Req.data[i].platform = Req.data[j].platform => i = j
        /\ \A i \in 1..Len(Req.data) :
             LET members == {k \in BreakdownMatching :
                               records[k].platform = Req.data[i].platform}
             IN  /\ Req.data[i].impressions = SumAt(members, "impressions")
                 /\ Req.data[i].reach = SumAt(members, "reach")
                 /\ Req.data[i].engagement = SumAt(members, "engagement")
                 /\ Req.data[i].clicks = SumAt(members, "clicks")
                 /\ Req.data[i].conversions = SumAt(members, "conversions")
                 /\ Req.data[i].spend = SumAt(members, "spend")
        /\ \A i \in 1..(Len(Req.data) - 1) :
             Req.data[i].engagement >= Req.data[i + 1].engagement ]_vars

\* A breakdown listed the platform of the second record first, its
\* engagement being the larger.
C24_Witness ==
  /\ response.op = "getPlatformBreakdown"
  /\ Len(records) = 2
  /\ records[1].platform = "INSTAGRAM"
  /\ records[2].platform = "FACEBOOK"
  /\ Len(response.data) = 2
  /\ response.data[1].platform = "FACEBOOK"
  /\ response.data[1].engagement = 10
  /\ response.data[2].engagement = 4

\* ------------------------------------------------- approval and ownership
\* C29: approval cannot be bypassed: every stored post whose status is
\* PUBLISHED has approvedBy set.
C29_PublishedHasApprover ==
  \A i \in DOMAIN posts :
    posts[i].status = "PUBLISHED" => posts[i].approvedBy # NullUser

\* C30: a caller who is neither the creator of a stored post nor of an
\* elevated role changes no field of it through updatePost, deletePost,
\* submitForApproval, approvePost or publishPost.
C30_StrangerChangesNothing ==
  [][ ( /\ Req.op \in {"updatePost", "deletePost", "submitForApproval",
                       "approvePost", "publishPost"}
        /\ Req.id \in DOMAIN posts
        /\ ~CanModify(ReqPost, Req.user) )
      => PostUnchanged ]_vars

\* ---------------------------------------------------- handlers step by step
\* The post handlers taken await by await.  A request first loads the post
\* and, on the loaded document, runs its checks and assignments (begin);
\* the write it then issues reaches the collection in a later step (write);
\* what follows the awaited write, the emit and the answer, is a third step
\* (finish).  Steps of the two connections interleave freely.
MaxEvents == 2     \* emitting requests accepted over a run

RaceUsers == {"ann"}
RacePatches == {[title |-> "Teaser"], [scheduledAt |-> 1]}
RaceOps == {"updatePost", "submitForApproval", "approvePost", "publishPost"}
EmittingOps == {"submitForApproval", "publishPost"}

\* The paths a request writes: the $set of findByIdAndUpdate, or the paths
\* assigned before post.save().
WrittenPaths(op, patch) ==
  CASE op = "updatePost" -> DOMAIN Updates(patch)
    [] op = "submitForApproval" -> {"status"}
    [] op = "approvePost" -> {"status", "approvedBy"}
    [] op = "publishPost" -> {"status", "publishedAt"}

RaceAnswer(op, post, user, patch, t) ==
  CASE op = "updatePost" -> UpdatePostHandler(post, user, patch)
    [] op = "submitForApproval" -> SubmitForApprovalHandler(post, user)
    [] op = "approvePost" -> ApprovePostHandler(post, user)
    [] op = "publishPost" -> PublishPostHandler(post, user, t)

\* Mutant: approvePost notifies the creator as well.
EmittedOnApprove(call) ==
  CASE call.op = "submitForApproval" ->
         << [channel |-> "MARKETING_HEAD", event |-> "post:pending_approval",
             postId |-> call.id] >>
    [] call.op \in {"publishPost", "approvePost"} ->
         << [channel |-> call.doc.createdBy, event |-> "post:published",
             postId |-> call.id] >>
    [] OTHER -> << >>

\* The events a request emits once its write has been awaited.
Emitted(call) ==
  CASE call.op = "submitForApproval" ->
         << [channel |-> "MARKETING_HEAD", event |-> "post:pending_approval",
             postId |-> call.id] >>
    [] call.op = "publishPost" ->
         << [channel |-> call.doc.createdBy, event |-> "post:published",
             postId |-> call.id] >>
    [] OTHER -> << >>

InFlight == {c \in Calls : calls[c].pc # "idle"}

begin(c) ==
  \E op \in RaceOps, user \in RaceUsers, id \in PostIds, t \in Later,
     patch \in RacePatches :
    LET body == IF op = "updatePost" THEN patch ELSE <<>>
        ans == IF id \in DOMAIN posts
               THEN RaceAnswer(op, posts[id], user, body, t) ELSE NotFound
    IN  /\ calls[c].pc = "idle"
        /\ op \in EmittingOps =>
             Len(events) + Cardinality({d \in InFlight :
                                          calls[d].op \in EmittingOps})
               < MaxEvents
        /\ now' = t
        /\ IF ans.code = 200
           THEN /\ calls' = [calls EXCEPT ![c] =
                     [pc |-> "loaded", op |-> op, user |-> user, id |-> id,
                      body |-> body, doc |-> ans.post,
                      message |-> ans.message]]
                /\ UNCHANGED response
           ELSE /\ response' = Request(op, user, id, body, ans)
                /\ UNCHANGED calls
        /\ UNCHANGED <<postVars, leadVars, campaigns, records, events>>

write(c) ==
  LET call == calls[c]
      paths == WrittenPaths(call.op, call.body)
  IN  /\ call.pc = "loaded"
      /\ posts' = [posts EXCEPT ![call.id] =
                     FindByIdAndUpdate(@, [f \in paths |-> call.doc[f]])]
      /\ everPending' = History(posts')
      /\ calls' = [calls EXCEPT ![c].pc = "written"]
      /\ UNCHANGED <<nextId, now, response, leadVars, campaigns, records,
                     events>>

finish(c) ==
  LET call == calls[c]
  IN  /\ call.pc = "written"
      /\ events' = events \o Emitted(call)
      /\ response' = Request(call.op, call.user, call.id, call.body,
                             Answer(200, call.message, <<>>))
      /\ calls' = [calls EXCEPT ![c] = Idle]
      /\ UNCHANGED <<postVars, now, leadVars, campaigns, records>>

NextRace ==
  \/ createPost
  \/ \E c \in Calls : begin(c)
  \/ \E c \in Calls : write(c)
  \/ \E c \in Calls : finish(c)

SpecRace == Init /\ [][NextRace]_vars

\* The connections whose request completes, performs its write, or is
\* turned down in this step.
Finishing == {c \in Calls : calls[c].pc = "written" /\ calls'[c] = Idle}
Writing == {c \in Calls : calls[c].pc = "loaded" /\ calls'[c].pc = "written"}

\* C25: a step emits events only when it completes a request whose write
\* has been performed; completing submitForApproval emits exactly one
\* post:pending_approval event to MARKETING_HEAD, completing publishPost
\* exactly one post:published event to the post creator's channel, the
\* write of either stored the new status in an earlier step than the emit,
\* and every other step (a request turned down with 400 or 404 included,
\* and a completed approvePost or updatePost) emits nothing.
C25_EventsOnSuccessOnly ==
  [][ /\ \A c \in Finishing :
           LET call == calls[c]
           IN  /\ Req.code = 200 /\ Req.op = call.op
               /\ events' = events \o
                    ( CASE call.op = "submitForApproval" ->
                             << [channel |-> "MARKETING_HEAD",
                                 event |-> "post:pending_approval",
                                 postId |-> call.id] >>
                        [] call.op = "publishPost" ->
                             << [channel |-> posts[call.id].createdBy,
                                 event |-> "post:published",
                                 postId |-> call.id] >>
                        [] OTHER -> << >> )
      /\ \A c \in Writing :
           /\ calls[c].op = "submitForApproval" =>
                posts'[calls[c].id].status = "PENDING_APPROVAL"
           /\ calls[c].op = "publishPost" =>
                posts'[calls[c].id].status = "PUBLISHED"
      /\ Finishing = {} => events' = events ]_vars

\* Both notifications have gone out: the submission to MARKETING_HEAD and
\* then the publication to the creator, who is not the caller.
C25_Witness ==
  /\ Len(events) = 2
  /\ events[1].channel = "MARKETING_HEAD"
  /\ events[2].event = "post:published" /\ events[2].channel = "mia"
  /\ response.op = "publishPost" /\ response.code = 200
  /\ posts[1].status = "PUBLISHED" /\ posts[1].approvedBy = "ann"

\* C26: with updatePost and publishPost interleaved, every stored post has
\* publishedAt set if and only if its status is PUBLISHED, and the write of
\* an updatePost changes nothing on a post that is PUBLISHED.
C26_InterleavedPostInvariants ==
  [][ /\ \A i \in DOMAIN posts' :
           (posts'[i].publishedAt # NullDate) <=> (posts'[i].status = "PUBLISHED")
      /\ \A c \in Writing :
           (calls[c].op = "updatePost" /\ posts[calls[c].id].status = "PUBLISHED")
             => posts' = posts ]_vars

\* C27: publishing happens at most once per post: at most one
\* post:published event is ever emitted for a post (one per publishPost
\* that succeeded), and a publishedAt that has been set never changes.
C27_PublishAtMostOnce ==
  [][ /\ \A i \in PostIds :
           Cardinality({k \in DOMAIN events' :
                          events'[k].event = "post:published"
                            /\ events'[k].postId = i}) <= 1
      /\ \A i \in DOMAIN posts :
           posts[i].publishedAt # NullDate =>
             posts'[i].publishedAt = posts[i].publishedAt ]_vars

\* ------------------------------------------- lead creation step by step
\* createLead and bulkImportLeads taken await by await: for each email the
\* handler awaits Lead.findOne (lookupLead) and then, in a later step,
\* Lead.create (insertLead).  A call holds the items it still has to
\* handle; createLead is a call with the one item of its body.
RaceLeadInputs ==
  [emails |-> {"a@x.io", "A@x.io"},
   imports |-> {<<>>, <<[email |-> "a@x.io"]>>,
                <<[email |-> "b@x.io"], [email |-> "a@x.io"]>>}]

receiveLead(c) ==
  \E op \in {"createLead", "bulkImportLeads"}, user \in RaceUsers, t \in Later,
     email \in RaceLeadInputs.emails, items \in RaceLeadInputs.imports :
    LET body == IF op = "createLead" THEN email ELSE items
        todo == IF op = "createLead" THEN <<[email |-> email]>> ELSE items
    IN  /\ calls[c].pc = "idle"
        /\ now' = t
        /\ IF todo = <<>>
           THEN /\ response' = [op |-> op, user |-> user, id |-> 0,
                                body |-> body, code |-> 400,
                                message |-> "Leads array is required"]
                /\ UNCHANGED calls
           ELSE /\ calls' = [calls EXCEPT ![c] =
                     [pc |-> "lookup", op |-> op, user |-> user,
                      body |-> body, items |-> todo]]
                /\ UNCHANGED response
        /\ UNCHANGED <<postVars, leadVars, campaigns, records, events>>

\* The call after the item at the head has been dealt with: the next item,
\* or the answer when none is left.
LeadCallDone(c, code, message) ==
  LET call == calls[c]
  IN  IF call.op = "createLead" \/ Len(call.items) = 1
      THEN /\ calls' = [calls EXCEPT ![c] = Idle]
           /\ response' = [op |-> call.op, user |-> call.user, id |-> 0,
                           body |-> call.body, code |-> code,
                           message |-> message]
      ELSE /\ calls' = [calls EXCEPT ![c] =
                          [call EXCEPT !.pc = "lookup", !.items = Tail(@)]]
           /\ UNCHANGED response

lookupLead(c) ==
  LET call == calls[c]
  IN  /\ call.pc = "lookup"
      /\ IF FindOneByEmail(leads, Head(call.items).email) = {}
         THEN /\ calls' = [calls EXCEPT ![c].pc = "insert"]
              /\ UNCHANGED response
         ELSE IF call.op = "createLead"
         THEN LeadCallDone(c, 409, "Lead with this email already exists")
         ELSE LeadCallDone(c, 200, "Imported leads successfully")
      /\ UNCHANGED <<postVars, leadVars, now, campaigns, records, events>>

insertLead(c) ==
  LET call == calls[c]
      doc == IF call.op = "createLead" THEN NewLead(Head(call.items).email)
             ELSE ImportedLead(Head(call.items))
  IN  /\ call.pc = "insert"
      /\ nextLead \in LeadIds
      /\ leads' = PutLead(leads, nextLead, doc)
      /\ nextLead' = nextLead + 1
      /\ IF call.op = "createLead"
         THEN LeadCallDone(c, 201, "Lead created successfully")
         ELSE LeadCallDone(c, 200, "Imported leads successfully")
      /\ UNCHANGED <<postVars, now, campaigns, records, events>>

NextLeadRace ==
  \/ \E c \in Calls : receiveLead(c)
  \/ \E c \in Calls : lookupLead(c)
  \/ \E c \in Calls : insertLead(c)

SpecLeadRace == Init /\ [][NextLeadRace]_vars

\* C28: with createLead and bulkImportLeads requests interleaved, no two
\* stored leads have the same email.
C28_UniqueEmailsUnderRace == UniqueEmails(leads)

====
